---- MODULE Spec2Model ----
(***************************************************************************)
(* A model of the Wii remote character/HID driver (wii-remote-driver.c):   *)
(* the circular buffer and its mutex, the report decoder, the raw-event    *)
(* callback, the read and ioctl file operations and probe/remove.          *)
(*                                                                         *)
(* Bytes are modelled as integers 0..255 and C strings as sequences of     *)
(* character codes, so formatting is computed and never assumed.           *)
(*                                                                         *)
(* Two specifications share the state:                                     *)
(*   Spec      the driver, one action per handler (real event text);       *)
(*   SpecRing  circ_buffer_write and device_read statement by statement,   *)
(*             run by a producer and several readers under circ_mutex.     *)
(* The capacity of the ring is the length of the array circ_buffer; the    *)
(* source fixes it at 1024, the two specifications use reduced arrays.     *)
(***************************************************************************)
EXTENDS Integers, Sequences, FiniteSets, TLC

VARIABLES
    circ_buffer,       \* static char circ_buffer[CIRC_BUFFER_SIZE], index 0..size-1
    head,              \* write index
    tail,              \* read index
    circ_mutex,        \* set of processes holding circ_mutex ({} = unlocked)
    wii_hid_dev,       \* pointer to the HID device instance, NULL when none
    wii_connected,     \* 1 if connected, 0 if not
    wii_last_battery,  \* -1 means unknown
    attached,          \* HID devices the HID core has currently bound to the driver
    last,              \* what the most recent handler was given and what it returned
    nreports,          \* how many reports the transport has delivered so far
    pc,                \* SpecRing, SpecConn: each process's position in its function
    wr,                \* SpecRing: circ_buffer_write's arguments and locals
    rd,                \* SpecRing: device_read's arguments and locals, per reader
    task,              \* SpecConn: locals of device_ioctl and wii_proc_show
    offered,           \* history: every byte handed to circ_buffer_write, in order
    admitted,          \* history: every byte circ_buffer_write stored, in order
    delivered,         \* history: every byte copy_to_user copied out, in order
    overflowed         \* history: some write found the ring full and dropped data

vars == <<circ_buffer, head, tail, circ_mutex, wii_hid_dev, wii_connected,
          wii_last_battery, attached, last, nreports, pc, wr, rd, task,
          offered, admitted, delivered, overflowed>>

ringVars == <<circ_buffer, head, tail, circ_mutex>>
connVars == <<wii_hid_dev, wii_connected, wii_last_battery, attached>>
procVars == <<pc, wr, rd, task>>
histVars == <<offered, admitted, delivered, overflowed>>

---------------------------------------------------------------------------
(* Bounds of the model. *)

\* Length of circ_buffer under Spec (the source has 1024).
CIRC_BUFFER_SIZE == 32

\* Length of circ_buffer under SpecRing.
RingSize == 4

\* Number of concurrent readers under SpecRing.
NReaders == 2

\* SpecRing stops offering bytes once this many have been offered.
MaxOffered == 7

\* Spec ingests at most this many reports.
MaxReports == 2

---------------------------------------------------------------------------
(* Program constants. *)

NULL == 0
ENODEV == 19
EFAULT == 14
ENOTTY == 25
MAPPING_OUTPUT_SIZE == 256
BATTERY_REPORT_ID == 32
STATUS_REQUEST_ID == 21
MAX_READ_SIZE == 256

WIIMOTE_IOCTL_REQUEST_STATUS == "_IO('W', 1)"

---------------------------------------------------------------------------
(* Arithmetic and text helpers. *)

Min(a, b) == IF a < b THEN a ELSE b

Take(s, n) == SubSeq(s, 1, Min(n, Len(s)))

Drop(s, n) == SubSeq(s, Min(n, Len(s)) + 1, Len(s))

\* btn & mask for a one-bit mask given as the bit's position.
BitSet(b, bit) == (b \div (2 ^ bit)) % 2 = 1

\* The "%u" / "%d" conversion of a non-negative value: its decimal digits.
RECURSIVE Decimal(_)
Decimal(n) == IF n < 10 THEN <<48 + n>> ELSE Decimal(n \div 10) \o <<48 + (n % 10)>>

\* "%d" of an int.
FormatInt(n) == IF n < 0 THEN <<45>> \o Decimal(-n) ELSE Decimal(n)

---------------------------------------------------------------------------
(* String literals of the source, as character codes. *)

STR_REPORT_ID == <<82, 101, 112, 111, 114, 116, 58, 32, 73, 68, 61>>  \* "Report: ID="
STR_COMMA_SP == <<44, 32>>                                             \* ", "
STR_NO_BUTTONS == <<78, 111, 32, 98, 117, 116, 116, 111, 110, 115, 32, 112, 114, 101, 115, 115, 101, 100>>  \* "No buttons pressed"
STR_BATTERY == <<66, 97, 116, 116, 101, 114, 121, 58, 32>>             \* "Battery: "
STR_NL == <<10>>                                                       \* "\n"

\* The button tests of perform_input_mapping in source order: which report
\* byte (1 or 2), which bit, and the literal snprintf appends when it is set.
ButtonTable ==
    << [byte |-> 1, bit |-> 0, text |-> <<68, 112, 97, 100, 95, 76, 101, 102, 116>>],            \* "Dpad_Left"
       [byte |-> 1, bit |-> 1, text |-> <<68, 112, 97, 100, 95, 82, 105, 103, 104, 116, 32>>],   \* "Dpad_Right "
       [byte |-> 1, bit |-> 2, text |-> <<68, 112, 97, 100, 95, 68, 111, 119, 110, 32>>],        \* "Dpad_Down "
       [byte |-> 1, bit |-> 3, text |-> <<68, 112, 97, 100, 95, 85, 112, 32>>],                  \* "Dpad_Up "
       [byte |-> 1, bit |-> 4, text |-> <<80, 108, 117, 115, 32>>],                              \* "Plus "
       [byte |-> 2, bit |-> 4, text |-> <<77, 105, 110, 117, 115, 32>>],                         \* "Minus "
       [byte |-> 2, bit |-> 7, text |-> <<72, 111, 109, 101, 32>>],                              \* "Home "
       [byte |-> 2, bit |-> 0, text |-> <<50, 32>>],                                             \* "2 "
       [byte |-> 2, bit |-> 1, text |-> <<49, 32>>],                                             \* "1 "
       [byte |-> 2, bit |-> 2, text |-> <<66, 32>>],                                             \* "B "
       [byte |-> 2, bit |-> 3, text |-> <<65>>] >>                                               \* "A"

---------------------------------------------------------------------------
(* perform_input_mapping: the report decoder. *)

\* len += snprintf(out + len, size - len, text) on a char out[size]: at most
\* size - len - 1 characters are stored, the return value is Len(text).
Snprintf(mo, size, text) ==
    [buf |-> Take(mo.buf, mo.len) \o Take(text, size - mo.len - 1),
     len |-> mo.len + Len(text)]

\* The chain of "if (btn & mask) len += snprintf(...)" from entry k on.
RECURSIVE MapButtons(_, _, _)
MapButtons(mo, data, k) ==
    IF k > Len(ButtonTable) THEN mo
    ELSE LET e == ButtonTable[k]
             btn == data[e.byte + 1]
         IN  MapButtons(IF BitSet(btn, e.bit)
                           THEN Snprintf(mo, MAPPING_OUTPUT_SIZE, e.text)
                           ELSE mo,
                        data, k + 1)

\* Mutant of MappingHeader: the format is "Report: ID=%d" without ", ".
MappingHeader_NoSeparator(data) ==
    Snprintf([buf |-> <<>>, len |-> 0], MAPPING_OUTPUT_SIZE,
             STR_REPORT_ID \o Decimal(data[1]))

\* mapping_output and len after the header and the button chain.
MappingHeader(data) ==
    Snprintf([buf |-> <<>>, len |-> 0], MAPPING_OUTPUT_SIZE,
             STR_REPORT_ID \o Decimal(data[1]) \o STR_COMMA_SP)

\* The "if (len == 0)" fallback.
MappingFallback(mo) ==
    IF mo.len = 0
       THEN [buf |-> Take(STR_NO_BUTTONS, MAPPING_OUTPUT_SIZE - 1),
             len |-> Len(STR_NO_BUTTONS)]
       ELSE mo

\* The newline is appended only when it fits.
MappingTerminate(mo) ==
    IF mo.len < MAPPING_OUTPUT_SIZE - 1
       THEN [buf |-> Take(mo.buf, mo.len) \o STR_NL, len |-> mo.len + 1]
       ELSE mo

\* Mutant of perform_input_mapping: the length test is "size < 2", and the
\* byte the report does not have reads as 0.
perform_input_mapping_ShortCheck(data) ==
    IF Len(data) < 2
       THEN [write |-> FALSE, text |-> <<>>]
       ELSE LET padded == IF Len(data) < 3 THEN data \o <<0>> ELSE data
                mo == MappingTerminate(
                          MappingFallback(MapButtons(MappingHeader(padded), padded, 1)))
            IN  [write |-> TRUE, text |-> Take(mo.buf, mo.len)]

\* What perform_input_mapping hands to circ_buffer_write: [write |-> FALSE]
\* when the report is too short, else the bytes mapping_output[0 .. len-1].
perform_input_mapping(data) ==
    IF Len(data) < 3
       THEN [write |-> FALSE, text |-> <<>>]
       ELSE LET mo == MappingTerminate(
                          MappingFallback(MapButtons(MappingHeader(data), data, 1)))
            IN  [write |-> TRUE, text |-> Take(mo.buf, mo.len)]

\* Mutant of BatteryOutput: the format is "Battery: %d" without the newline.
BatteryOutput_NoNewline(level) ==
    LET mo == Snprintf([buf |-> <<>>, len |-> 0], 64, STR_BATTERY \o FormatInt(level))
    IN  Take(mo.buf, mo.len)

\* snprintf(battery_output, 64, "Battery: %d\n", data[1]).
BatteryOutput(level) ==
    LET mo == Snprintf([buf |-> <<>>, len |-> 0], 64,
                       STR_BATTERY \o FormatInt(level) \o STR_NL)
    IN  Take(mo.buf, mo.len)

---------------------------------------------------------------------------
(* The circular buffer. *)

\* sizeof circ_buffer.
BufSize == Cardinality(DOMAIN circ_buffer)

\* Mutant of NextIndex: the index is advanced without the modulo.
NextIndex_NoWrap(i) == i + 1

\* lines 68 and 205: (index + 1) % CIRC_BUFFER_SIZE.
NextIndex(i) == (i + 1) % BufSize

\* Occupied byte count.
Occupied(h, t) == (h - t + BufSize) % BufSize

FreeSpace(h, t) == BufSize - 1 - Occupied(h, t)

\* The unread bytes, oldest first: circ_buffer[tail], ..., circ_buffer[head - 1].
Contents(buf, h, t) == [k \in 1..Occupied(h, t) |-> buf[(t + k - 1) % BufSize]]

Unread == Contents(circ_buffer, head, tail)

\* Mutant of IsFull: the full test never fires.
IsFull_Never(next, t) == FALSE

\* line 69: the ring is full when the next write index would equal the read index.
IsFull(next, t) == next = t

\* The loop of circ_buffer_write from data[i] on (i counts from 1).
RECURSIVE WriteLoop(_, _, _, _, _)
WriteLoop(buf, h, t, data, i) ==
    IF i > Len(data) THEN [buf |-> buf, head |-> h]
    ELSE LET next == NextIndex(h)
         IN  IF IsFull(next, t)
                THEN [buf |-> buf, head |-> h]
                ELSE WriteLoop([buf EXCEPT ![h] = data[i]], next, t, data, i + 1)

\* Mutant of ReadLoop: the loop test is "bytes_copied <= count".
RECURSIVE ReadLoop_OffByOne(_, _, _, _, _)
ReadLoop_OffByOne(buf, h, t, out, arg) ==
    IF ~(Len(out) <= arg.count /\ t # h) THEN [tail |-> t, out |-> out, fault |-> FALSE]
    ELSE IF Len(out) >= arg.writable THEN [tail |-> t, out |-> out, fault |-> TRUE]
    ELSE ReadLoop_OffByOne(buf, h, NextIndex(t), Append(out, buf[t]), arg)

\* The loop of device_read; copy_to_user(buf + k, ...) succeeds for
\* k < writable. Result: the new tail, the bytes copied, and whether it faulted.
RECURSIVE ReadLoop(_, _, _, _, _)
ReadLoop(buf, h, t, out, arg) ==
    IF ~(Len(out) < arg.count /\ t # h) THEN [tail |-> t, out |-> out, fault |-> FALSE]
    ELSE IF Len(out) >= arg.writable THEN [tail |-> t, out |-> out, fault |-> TRUE]
    ELSE ReadLoop(buf, h, NextIndex(t), Append(out, buf[t]), arg)

---------------------------------------------------------------------------
(* Inputs of the handlers. *)

\* struct hid_device pointers the HID core may hand to the driver (non-NULL).
Devices == {1}

\* Raw reports the transport delivers: too short (0, 1, 2 bytes), status
\* reports (first byte 0x20) of 1, 2 and 3 bytes, and button reports.
Reports ==
    { <<>>, <<49>>, <<49, 1>>, <<32>>,
      <<32, 42>>, <<32, 200, 0>>,
      <<49, 1, 8>>, <<49, 0, 0>>, <<18, 2, 4>> }

\* The count argument of read(2).
ReadCounts == {0, 12, CIRC_BUFFER_SIZE}

\* How many leading bytes of the user buffer copy_to_user can write
\* (0: a bad pointer; CIRC_BUFFER_SIZE: a valid destination for every count).
Writables == {0, CIRC_BUFFER_SIZE}

\* ioctl command numbers: the status request and an unknown one.
IoctlCmds == {WIIMOTE_IOCTL_REQUEST_STATUS, "other"}

\* Return values of hid_hw_raw_request: the byte count sent, or -EIO.
TransportResults == {2, -5}

\* Return values of hid_parse and hid_hw_start: 0, or -EINVAL.
HidResults == {0, -22}

NoCall ==
    [op |-> "none", report |-> <<>>, count |-> 0, writable |-> 0, cmd |-> "",
     ret |-> 0, out |-> <<>>, sent |-> <<>>, act |-> "none"]

---------------------------------------------------------------------------
(* Spec: the driver, one action per handler. *)

\* Locals of the SpecConn tasks: dev is the value device_ioctl found in
\* wii_hid_dev at its test, connected the value wii_proc_show read from
\* wii_connected, and seen the pairs <<wii_connected, wii_last_battery>> that
\* held at some moment since wii_proc_show read the first of the two.
NoTask == [dev |-> NULL, connected |-> 0, seen |-> {}]

Init ==
    /\ circ_buffer = [i \in 0..(CIRC_BUFFER_SIZE - 1) |-> 0]
    /\ head = 0
    /\ tail = 0
    /\ circ_mutex = {}
    /\ wii_hid_dev = NULL
    /\ wii_connected = 0
    /\ wii_last_battery = -1
    /\ attached = {}
    /\ last = NoCall
    /\ nreports = 0
    /\ pc = <<>>
    /\ wr = <<>>
    /\ rd = <<>>
    /\ task = NoTask
    /\ offered = <<>>
    /\ admitted = <<>>
    /\ delivered = <<>>
    /\ overflowed = FALSE

\* circ_buffer_write(data, len) run to completion: lock, loop, unlock.
circ_buffer_write(data) ==
    /\ circ_mutex = {}
    /\ LET r == WriteLoop(circ_buffer, head, tail, data, 1)
       IN  /\ circ_buffer' = r.buf
           /\ head' = r.head
    /\ UNCHANGED <<tail, circ_mutex>>

\* Mutant of wii_raw_event: the level is taken as a signed char before it is
\* cached.
wii_raw_event_SignedLevel(hdev, data) ==
    /\ hdev \in attached
    /\ nreports < MaxReports
    /\ nreports' = nreports + 1
    /\ IF Len(data) > 0 /\ data[1] = BATTERY_REPORT_ID
          THEN IF Len(data) >= 2
                  THEN /\ wii_last_battery' = IF data[2] > 127 THEN data[2] - 256
                                                               ELSE data[2]
                       /\ circ_buffer_write(BatteryOutput(data[2]))
                  ELSE UNCHANGED <<wii_last_battery, ringVars>>
          ELSE /\ UNCHANGED wii_last_battery
               /\ LET m == perform_input_mapping(data)
                  IN  IF m.write THEN circ_buffer_write(m.text)
                                 ELSE UNCHANGED ringVars
    /\ last' = [NoCall EXCEPT !.op = "raw_event", !.report = data]
    /\ UNCHANGED <<wii_hid_dev, wii_connected, attached, procVars, histVars>>

\* wii_raw_event(hdev, report, data, size), size = Len(data).
wii_raw_event(hdev, data) ==
    /\ hdev \in attached
    /\ nreports < MaxReports
    /\ nreports' = nreports + 1
    /\ IF Len(data) > 0 /\ data[1] = BATTERY_REPORT_ID
          THEN IF Len(data) >= 2
                  THEN /\ wii_last_battery' = data[2]
                       /\ circ_buffer_write(BatteryOutput(data[2]))
                  ELSE UNCHANGED <<wii_last_battery, ringVars>>
          ELSE /\ UNCHANGED wii_last_battery
               /\ LET m == perform_input_mapping(data)
                  IN  IF m.write THEN circ_buffer_write(m.text)
                                 ELSE UNCHANGED ringVars
    /\ last' = [NoCall EXCEPT !.op = "raw_event", !.report = data]
    /\ UNCHANGED <<wii_hid_dev, wii_connected, attached, procVars, histVars>>

\* device_read(file, buf, count, ppos) run to completion.
device_read(count, writable) ==
    /\ circ_mutex = {}
    /\ LET r == ReadLoop(circ_buffer, head, tail, <<>>,
                         [count |-> count, writable |-> writable])
       IN  /\ tail' = r.tail
           /\ last' = [NoCall EXCEPT !.op = "read", !.count = count,
                                     !.writable = writable, !.out = r.out,
                                     !.ret = IF r.fault THEN -EFAULT ELSE Len(r.out)]
    /\ UNCHANGED <<circ_buffer, head, circ_mutex, connVars, nreports, procVars, histVars>>

\* Mutant of device_ioctl: a failed hid_hw_raw_request is tried a second time.
device_ioctl_Retries(cmd, tr) ==
    /\ last' = IF cmd = WIIMOTE_IOCTL_REQUEST_STATUS
                  THEN IF wii_hid_dev # NULL
                          THEN LET req == [dev |-> wii_hid_dev,
                                           data |-> <<STATUS_REQUEST_ID, 0>>,
                                           result |-> tr]
                               IN  [NoCall EXCEPT !.op = "ioctl", !.cmd = cmd, !.ret = tr,
                                       !.sent = IF tr < 0 THEN <<req, req>> ELSE <<req>>]
                          ELSE [NoCall EXCEPT !.op = "ioctl", !.cmd = cmd, !.ret = -ENODEV]
                  ELSE [NoCall EXCEPT !.op = "ioctl", !.cmd = cmd, !.ret = -ENOTTY]
    /\ UNCHANGED <<ringVars, connVars, nreports, procVars, histVars>>

\* Mutant of device_ioctl: a failed hid_hw_raw_request marks the device as
\* disconnected.
device_ioctl_DropsOnError(cmd, tr) ==
    /\ last' = IF cmd = WIIMOTE_IOCTL_REQUEST_STATUS
                  THEN IF wii_hid_dev # NULL
                          THEN [NoCall EXCEPT !.op = "ioctl", !.cmd = cmd, !.ret = tr,
                                   !.sent = << [dev |-> wii_hid_dev,
                                                data |-> <<STATUS_REQUEST_ID, 0>>,
                                                result |-> tr] >>]
                          ELSE [NoCall EXCEPT !.op = "ioctl", !.cmd = cmd, !.ret = -ENODEV]
                  ELSE [NoCall EXCEPT !.op = "ioctl", !.cmd = cmd, !.ret = -ENOTTY]
    /\ wii_connected' = IF cmd = WIIMOTE_IOCTL_REQUEST_STATUS /\ wii_hid_dev # NULL /\ tr < 0
                           THEN 0 ELSE wii_connected
    /\ UNCHANGED <<ringVars, wii_hid_dev, wii_last_battery, attached, nreports, procVars, histVars>>

\* device_ioctl(file, cmd, arg); tr is what hid_hw_raw_request returns if called.
device_ioctl(cmd, tr) ==
    /\ last' = IF cmd = WIIMOTE_IOCTL_REQUEST_STATUS
                  THEN IF wii_hid_dev # NULL
                          THEN [NoCall EXCEPT !.op = "ioctl", !.cmd = cmd, !.ret = tr,
                                   !.sent = << [dev |-> wii_hid_dev,
                                                data |-> <<STATUS_REQUEST_ID, 0>>,
                                                result |-> tr] >>]
                          ELSE [NoCall EXCEPT !.op = "ioctl", !.cmd = cmd, !.ret = -ENODEV]
                  ELSE [NoCall EXCEPT !.op = "ioctl", !.cmd = cmd, !.ret = -ENOTTY]
    /\ UNCHANGED <<ringVars, connVars, nreports, procVars, histVars>>

\* Mutant of wii_probe: a successful probe resets wii_last_battery to -1.
wii_probe_ResetsBattery(hdev, parse, start) ==
    /\ hdev \notin attached
    /\ IF parse # 0
          THEN /\ last' = [NoCall EXCEPT !.op = "probe", !.ret = parse]
               /\ UNCHANGED connVars
          ELSE IF start # 0
          THEN /\ last' = [NoCall EXCEPT !.op = "probe", !.ret = start]
               /\ UNCHANGED connVars
          ELSE /\ wii_hid_dev' = hdev
               /\ wii_connected' = 1
               /\ attached' = attached \cup {hdev}
               /\ last' = [NoCall EXCEPT !.op = "probe", !.ret = 0]
               /\ wii_last_battery' = -1
    /\ UNCHANGED <<ringVars, nreports, procVars, histVars>>

\* wii_probe(hdev, id); parse and start are what hid_parse and hid_hw_start return.
wii_probe(hdev, parse, start) ==
    /\ hdev \notin attached
    /\ IF parse # 0
          THEN /\ last' = [NoCall EXCEPT !.op = "probe", !.ret = parse]
               /\ UNCHANGED connVars
          ELSE IF start # 0
          THEN /\ last' = [NoCall EXCEPT !.op = "probe", !.ret = start]
               /\ UNCHANGED connVars
          ELSE /\ wii_hid_dev' = hdev
               /\ wii_connected' = 1
               /\ attached' = attached \cup {hdev}
               /\ last' = [NoCall EXCEPT !.op = "probe", !.ret = 0]
               /\ UNCHANGED wii_last_battery
    /\ UNCHANGED <<ringVars, nreports, procVars, histVars>>

\* Mutant of wii_remove: wii_hid_dev is not cleared.
wii_remove_KeepsDev(hdev) ==
    /\ hdev \in attached
    /\ wii_connected' = 0
    /\ attached' = attached \ {hdev}
    /\ last' = [NoCall EXCEPT !.op = "remove"]
    /\ UNCHANGED <<wii_hid_dev, wii_last_battery, ringVars, nreports, procVars, histVars>>

\* Mutant of wii_remove: the ring is flushed on removal.
wii_remove_FlushesRing(hdev) ==
    /\ hdev \in attached
    /\ wii_hid_dev' = NULL
    /\ wii_connected' = 0
    /\ attached' = attached \ {hdev}
    /\ tail' = head
    /\ last' = [NoCall EXCEPT !.op = "remove"]
    /\ UNCHANGED <<wii_last_battery, circ_buffer, head, circ_mutex, nreports, procVars, histVars>>

\* wii_remove(hdev).
wii_remove(hdev) ==
    /\ hdev \in attached
    /\ wii_hid_dev' = NULL
    /\ wii_connected' = 0
    /\ attached' = attached \ {hdev}
    /\ last' = [NoCall EXCEPT !.op = "remove"]
    /\ UNCHANGED <<wii_last_battery, ringVars, nreports, procVars, histVars>>

Next ==
    \/ \E hdev \in Devices, data \in Reports : wii_raw_event(hdev, data)
    \/ \E count \in ReadCounts, writable \in Writables : device_read(count, writable)
    \/ \E cmd \in IoctlCmds, tr \in TransportResults : device_ioctl(cmd, tr)
    \/ \E hdev \in Devices, parse \in HidResults, start \in HidResults :
          wii_probe(hdev, parse, start)
    \/ \E hdev \in Devices : wii_remove(hdev)

Spec == Init /\ [][Next]_vars

---------------------------------------------------------------------------
(* SpecRing: circ_buffer_write and device_read statement by statement.     *)
(* Process Producer is the report callback calling circ_buffer_write; the  *)
(* processes 1..NReaders are tasks inside read(2).  The k-th byte ever     *)
(* offered to the ring carries the value k, so a byte that is lost,        *)
(* duplicated or reordered shows in what the readers receive.              *)

Producer == 0

Readers == 1..NReaders

Procs == {Producer} \cup Readers

\* len of a circ_buffer_write call; RingSize is one more than the ring holds.
WriteLens == {1, 2, RingSize}

\* count of a read call.
RingReadCounts == {1, RingSize}

\* Leading writable bytes of a reader's destination (see Writables).
RingWritables == {1, RingSize}

\* The critical sections: the labels between mutex_lock and mutex_unlock.
InCritical(p) ==
    pc[p] \in {"w_loop", "w_store", "w_advance", "w_unlock",
               "r_loop", "r_copy", "r_advance", "r_unlock", "r_fault"}

\* A reader's locals; before, head0 and tail0 remember the unread bytes and
\* the indices found when the lock is taken.
NoRead ==
    [count |-> 0, writable |-> 0, bytes_copied |-> 0,
     before |-> <<>>, head0 |-> 0, tail0 |-> 0]

NoWrite == [data |-> <<>>, i |-> 0, next |-> 0, before |-> <<>>]

InitRing ==
    /\ circ_buffer = [i \in 0..(RingSize - 1) |-> 0]
    /\ head = 0
    /\ tail = 0
    /\ circ_mutex = {}
    /\ wii_hid_dev = NULL
    /\ wii_connected = 0
    /\ wii_last_battery = -1
    /\ attached = {}
    /\ last = NoCall
    /\ nreports = 0
    /\ pc = [p \in Procs |-> "idle"]
    /\ wr = NoWrite
    /\ rd = [r \in Readers |-> NoRead]
    /\ task = NoTask
    /\ offered = <<>>
    /\ admitted = <<>>
    /\ delivered = <<>>
    /\ overflowed = FALSE

\* mutex_lock(&circ_mutex): blocks until the mutex is free, then takes it.
mutex_lock(p) ==
    /\ circ_mutex = {}
    /\ circ_mutex' = {p}

\* mutex_unlock(&circ_mutex).
mutex_unlock(p) == circ_mutex' = circ_mutex \ {p}

\* The callback calls circ_buffer_write(data, len) with the next len bytes.
WriteCall(len) ==
    /\ pc[Producer] = "idle"
    /\ Len(offered) + len <= MaxOffered
    /\ LET data == [k \in 1..len |-> (Len(offered) + k) % 256]
       IN  /\ wr' = [data |-> data, i |-> 0, next |-> 0, before |-> <<>>]
           /\ offered' = offered \o data
    /\ pc' = [pc EXCEPT ![Producer] = "w_lock"]
    /\ UNCHANGED <<ringVars, connVars, last, nreports, task, rd,
                   admitted, delivered, overflowed>>

\* line 65.  wr.before remembers the unread bytes found when the lock is taken.
WriteLock ==
    /\ pc[Producer] = "w_lock"
    /\ mutex_lock(Producer)
    /\ wr' = [wr EXCEPT !.before = Unread]
    /\ pc' = [pc EXCEPT ![Producer] = "w_loop"]
    /\ UNCHANGED <<circ_buffer, head, tail, connVars, last, nreports, task, rd, histVars>>

\* lines 67-72: the loop test, next, and the full test with its break.
WriteLoopTest ==
    /\ pc[Producer] = "w_loop"
    /\ IF wr.i < Len(wr.data)
          THEN LET next == NextIndex(head)
               IN  /\ wr' = [wr EXCEPT !.next = next]
                   /\ pc' = [pc EXCEPT ![Producer] =
                                IF IsFull(next, tail) THEN "w_unlock" ELSE "w_store"]
                   /\ overflowed' = (overflowed \/ IsFull(next, tail))
          ELSE /\ pc' = [pc EXCEPT ![Producer] = "w_unlock"]
               /\ UNCHANGED <<wr, overflowed>>
    /\ UNCHANGED <<ringVars, connVars, last, nreports, task, rd,
                   offered, admitted, delivered>>

\* Mutant of WriteStore: the byte is stored at next instead of head.
WriteStore_AtNext ==
    /\ pc[Producer] = "w_store"
    /\ circ_buffer' = [circ_buffer EXCEPT ![wr.next] = wr.data[wr.i + 1]]
    /\ admitted' = Append(admitted, wr.data[wr.i + 1])
    /\ pc' = [pc EXCEPT ![Producer] = "w_advance"]
    /\ UNCHANGED <<head, tail, circ_mutex, connVars, last, nreports, task, wr, rd,
                   offered, delivered, overflowed>>

\* line 73: circ_buffer[head] = data[i].
WriteStore ==
    /\ pc[Producer] = "w_store"
    /\ circ_buffer' = [circ_buffer EXCEPT ![head] = wr.data[wr.i + 1]]
    /\ admitted' = Append(admitted, wr.data[wr.i + 1])
    /\ pc' = [pc EXCEPT ![Producer] = "w_advance"]
    /\ UNCHANGED <<head, tail, circ_mutex, connVars, last, nreports, task, wr, rd,
                   offered, delivered, overflowed>>

\* line 74 and i++: head = next.
WriteAdvance ==
    /\ pc[Producer] = "w_advance"
    /\ head' = wr.next
    /\ wr' = [wr EXCEPT !.i = wr.i + 1]
    /\ pc' = [pc EXCEPT ![Producer] = "w_loop"]
    /\ UNCHANGED <<circ_buffer, tail, circ_mutex, connVars, last, nreports, task, rd, histVars>>

\* line 76.
WriteUnlock ==
    /\ pc[Producer] = "w_unlock"
    /\ mutex_unlock(Producer)
    /\ wr' = NoWrite
    /\ pc' = [pc EXCEPT ![Producer] = "idle"]
    /\ UNCHANGED <<circ_buffer, head, tail, connVars, last, nreports, task, rd, histVars>>

\* A task calls read(fd, buf, count).
ReadCall(r, count, writable) ==
    /\ pc[r] = "idle"
    /\ rd' = [rd EXCEPT ![r] = [NoRead EXCEPT !.count = count, !.writable = writable]]
    /\ pc' = [pc EXCEPT ![r] = "r_lock"]
    /\ UNCHANGED <<ringVars, connVars, last, nreports, task, wr, histVars>>

\* Mutant of ReadLock: device_read enters its loop without taking circ_mutex.
ReadLock_NoMutex(r) ==
    /\ pc[r] = "r_lock"
    /\ rd' = [rd EXCEPT ![r].before = Unread, ![r].head0 = head, ![r].tail0 = tail]
    /\ pc' = [pc EXCEPT ![r] = "r_loop"]
    /\ UNCHANGED <<ringVars, connVars, last, nreports, task, wr, histVars>>

\* line 194.
ReadLock(r) ==
    /\ pc[r] = "r_lock"
    /\ mutex_lock(r)
    /\ rd' = [rd EXCEPT ![r].before = Unread, ![r].head0 = head, ![r].tail0 = tail]
    /\ pc' = [pc EXCEPT ![r] = "r_loop"]
    /\ UNCHANGED <<circ_buffer, head, tail, connVars, last, nreports, task, wr, histVars>>

\* line 195: while (bytes_copied < count && tail != head).
ReadLoopTest(r) ==
    /\ pc[r] = "r_loop"
    /\ pc' = [pc EXCEPT ![r] =
                 IF rd[r].bytes_copied < rd[r].count /\ tail # head
                    THEN "r_copy" ELSE "r_unlock"]
    /\ UNCHANGED <<ringVars, connVars, last, nreports, task, wr, rd, histVars>>

\* line 196: copy_to_user(buf + bytes_copied, &circ_buffer[tail], 1).
ReadCopy(r) ==
    /\ pc[r] = "r_copy"
    /\ IF rd[r].bytes_copied >= rd[r].writable
          THEN /\ pc' = [pc EXCEPT ![r] = "r_fault"]
               /\ UNCHANGED <<rd, delivered>>
          ELSE /\ delivered' = Append(delivered, circ_buffer[tail])
               /\ pc' = [pc EXCEPT ![r] = "r_advance"]
               /\ UNCHANGED rd
    /\ UNCHANGED <<ringVars, connVars, last, nreports, task, wr, offered, admitted, overflowed>>

\* lines 205-206.
ReadAdvance(r) ==
    /\ pc[r] = "r_advance"
    /\ tail' = NextIndex(tail)
    /\ rd' = [rd EXCEPT ![r].bytes_copied = @ + 1]
    /\ pc' = [pc EXCEPT ![r] = "r_loop"]
    /\ UNCHANGED <<circ_buffer, head, circ_mutex, connVars, last, nreports, task, wr, histVars>>

\* lines 208-209.
ReadUnlock(r) ==
    /\ pc[r] = "r_unlock"
    /\ mutex_unlock(r)
    /\ rd' = [rd EXCEPT ![r] = NoRead]
    /\ last' = [NoCall EXCEPT !.op = "read", !.ret = rd[r].bytes_copied]
    /\ pc' = [pc EXCEPT ![r] = "idle"]
    /\ UNCHANGED <<circ_buffer, head, tail, connVars, nreports, task, wr, histVars>>

\* Mutant of ReadFault: the -EFAULT return leaves circ_mutex locked.
ReadFault_KeepsLock(r) ==
    /\ pc[r] = "r_fault"
    /\ rd' = [rd EXCEPT ![r] = NoRead]
    /\ last' = [NoCall EXCEPT !.op = "read", !.ret = -EFAULT,
                              !.out = Take(rd[r].before, rd[r].bytes_copied)]
    /\ pc' = [pc EXCEPT ![r] = "idle"]
    /\ UNCHANGED <<ringVars, connVars, nreports, task, wr, histVars>>

\* Mutant of ReadFault: the -EFAULT return puts tail back where the call
\* found it.
ReadFault_Rewinds(r) ==
    /\ pc[r] = "r_fault"
    /\ mutex_unlock(r)
    /\ tail' = rd[r].tail0
    /\ rd' = [rd EXCEPT ![r] = NoRead]
    /\ last' = [NoCall EXCEPT !.op = "read", !.ret = -EFAULT,
                              !.out = Take(rd[r].before, rd[r].bytes_copied)]
    /\ pc' = [pc EXCEPT ![r] = "idle"]
    /\ UNCHANGED <<circ_buffer, head, connVars, nreports, task, wr, histVars>>

\* lines 197-198; last.out is what had reached the destination before the fault.
ReadFault(r) ==
    /\ pc[r] = "r_fault"
    /\ mutex_unlock(r)
    /\ rd' = [rd EXCEPT ![r] = NoRead]
    /\ last' = [NoCall EXCEPT !.op = "read", !.ret = -EFAULT,
                              !.out = Take(rd[r].before, rd[r].bytes_copied)]
    /\ pc' = [pc EXCEPT ![r] = "idle"]
    /\ UNCHANGED <<circ_buffer, head, tail, connVars, nreports, task, wr, histVars>>

NextRing ==
    \/ \E len \in WriteLens : WriteCall(len)
    \/ WriteLock
    \/ WriteLoopTest
    \/ WriteStore
    \/ WriteAdvance
    \/ WriteUnlock
    \/ \E r \in Readers, count \in RingReadCounts, writable \in RingWritables :
          ReadCall(r, count, writable)
    \/ \E r \in Readers : ReadLock(r)
    \/ \E r \in Readers : ReadLoopTest(r)
    \/ \E r \in Readers : ReadCopy(r)
    \/ \E r \in Readers : ReadAdvance(r)
    \/ \E r \in Readers : ReadUnlock(r)
    \/ \E r \in Readers : ReadFault(r)

SpecRing == InitRing /\ [][NextRing]_vars

---------------------------------------------------------------------------
(* Properties of the ring buffer. *)

IsPrefix(a, b) == Len(a) <= Len(b) /\ a = SubSeq(b, 1, Len(a))

\* C1: after any interleaving of circ_buffer_write and device_read, head and
\* tail stay in [0, size) and the occupied byte count never exceeds size - 1:
\* neither the count the indices give, (head - tail + size) % size, nor the
\* number of bytes stored and not yet copied out; with the mutex free the two
\* counts agree.
C1_CapacityInvariant ==
    /\ head \in 0..(BufSize - 1)
    /\ tail \in 0..(BufSize - 1)
    /\ Occupied(head, tail) <= BufSize - 1
    /\ Len(admitted) - Len(delivered) <= BufSize - 1
    /\ circ_mutex = {} => Occupied(head, tail) = Len(admitted) - Len(delivered)

\* C1 witness: the ring is full, wrapped around, and a write has been cut short.
C1_Witness ==
    /\ Occupied(head, tail) = BufSize - 1
    /\ head < tail
    /\ overflowed
    /\ Len(delivered) > 0

\* C2: as long as no write has hit the full condition, the bytes copied out
\* are at every moment a prefix of w1 \o w2 \o ..., and whenever no call is in
\* progress the bytes copied out followed by the unread bytes are exactly
\* w1 \o w2 \o ...: nothing duplicated, skipped or reordered.
C2_Fifo ==
    ~overflowed =>
        /\ IsPrefix(delivered, offered)
        /\ (circ_mutex = {} /\ pc[Producer] = "idle") => delivered \o Unread = offered

\* C2 witness: more bytes than the array holds have gone through the ring, in
\* several writes and reads, without overflow, and all have been read.
C2_Witness ==
    /\ ~overflowed
    /\ Len(delivered) > BufSize
    /\ delivered = offered
    /\ \A p \in Procs : pc[p] = "idle"

\* C3: a write of more bytes than the free space stores exactly the prefix
\* that fits, after the old unread bytes, which stay as they were; what the
\* readers get is what was stored, in order, so never a dropped byte.
C3_OverflowDrop ==
    /\ pc[Producer] = "w_unlock" =>
          LET fit == Min(Len(wr.data), BufSize - 1 - Len(wr.before))
          IN  /\ wr.i = fit
              /\ Unread = wr.before \o Take(wr.data, fit)
              /\ Drop(admitted, Len(admitted) - fit) = Take(wr.data, fit)
    /\ circ_mutex = {} => delivered \o Unread = admitted
    /\ IsPrefix(delivered, admitted)

\* C3 witness: a write longer than the free space has just stopped at the full
\* test, with old unread bytes in the ring and a non-empty prefix stored.
C3_Witness ==
    /\ pc[Producer] = "w_unlock"
    /\ Len(wr.before) > 0
    /\ wr.i > 0
    /\ wr.i < Len(wr.data)

\* C5: at most one execution of circ_buffer_write or device_read is inside its
\* critical section, it holds circ_mutex, and every step that changes head,
\* tail or the storage is taken by the holder of circ_mutex from inside its
\* critical section.
MutexInv ==
    /\ \A p, q \in Procs : (InCritical(p) /\ InCritical(q)) => p = q
    /\ \A p \in Procs : InCritical(p) => circ_mutex = {p}

C5_MutualExclusion ==
    /\ []MutexInv
    /\ [][ <<circ_buffer, head, tail>>' # <<circ_buffer, head, tail>> =>
             \E p \in Procs : /\ circ_mutex = {p}
                              /\ InCritical(p)
                              /\ pc'[p] # pc[p] ]_vars

\* C5 witness: the producer is between storing a byte and advancing head while
\* every reader is blocked in mutex_lock.
C5_Witness ==
    /\ pc[Producer] = "w_advance"
    /\ \A r \in Readers : pc[r] = "r_lock"

---------------------------------------------------------------------------
(* Properties of the driver (Spec).  Under Spec every step is one handler  *)
(* call and last' tells which one, with its arguments and results.         *)

\* C4: device_read(count) with a valid destination returns
\* n = min(count, occupied) bytes, the oldest n in order, and advances tail by
\* exactly n, leaving head and the storage alone; on an empty ring it returns
\* 0, whatever the count and the destination.
C4_ReadReturnsOldest ==
    [][ last'.op = "read" =>
          LET n == Min(last'.count, Occupied(head, tail))
          IN  /\ head = tail => (last'.ret = 0 /\ last'.out = <<>> /\ tail' = tail)
              /\ last'.writable >= last'.count =>
                    /\ last'.ret = n
                    /\ last'.out = Take(Unread, n)
                    /\ tail' = (tail + n) % BufSize
                    /\ Unread' = Drop(Unread, n)
                    /\ head' = head
                    /\ circ_buffer' = circ_buffer ]_vars

\* C4 witness: a read with a valid destination returned exactly count bytes,
\* fewer than were available, with the ring wrapped around.
C4_Witness ==
    /\ last.op = "read"
    /\ last.writable >= last.count
    /\ last.ret = last.count
    /\ last.ret > 0
    /\ head < tail

\* A status report that carries a level: first byte 0x20, at least 2 bytes.
IsStatusReport(report) == Len(report) >= 2 /\ report[1] = 32

\* "Battery: <level>\n".
BatteryLine(level) == STR_BATTERY \o Decimal(level) \o STR_NL

\* "Battery: 42\n".
Battery42Line == <<66, 97, 116, 116, 101, 114, 121, 58, 32, 52, 50, 10>>

\* The part of the status round trip that does not depend on the free space:
\* a status request made while connected hands exactly one command
\* [0x15, 0x00] to the transport for the connected device and returns what
\* the transport returned; an ingested status report [0x20, L, ...] leaves the
\* state Connected and caches L; and a read of a ring that holds exactly the
\* status line yields that line.
StatusRoundTripCommon ==
    /\ (last'.op = "ioctl" /\ last'.cmd = WIIMOTE_IOCTL_REQUEST_STATUS /\ wii_connected = 1) =>
          /\ Len(last'.sent) = 1
          /\ last'.sent[1].data = <<21, 0>>
          /\ last'.sent[1].dev = wii_hid_dev
          /\ last'.ret = last'.sent[1].result
          /\ UNCHANGED <<circ_buffer, head, tail, wii_connected, wii_last_battery>>
    /\ (last'.op = "raw_event" /\ IsStatusReport(last'.report) /\ wii_connected = 1) =>
          /\ wii_connected' = 1
          /\ wii_last_battery' = last'.report[2]
    /\ (/\ last.op = "raw_event" /\ IsStatusReport(last.report)
        /\ Unread = BatteryLine(last.report[2])
        /\ last'.op = "read" /\ last'.count >= Len(Unread)
        /\ last'.writable >= last'.count) =>
          last'.out = BatteryLine(last.report[2])

\* C6 as stated: ... and the whole line "Battery: L\n" is appended to the ring.
C6_StatusRoundTrip_Original ==
    [][ /\ StatusRoundTripCommon
        /\ (last'.op = "raw_event" /\ IsStatusReport(last'.report) /\ wii_connected = 1) =>
              Unread' = Unread \o BatteryLine(last'.report[2]) ]_vars

\* C6 amended: ... and the line "Battery: L\n" is appended to the ring after
\* the unread bytes, whole when the ring has room for it and otherwise cut to
\* the free space; ingested into an empty ring, [0x20, 42] leaves exactly
\* "Battery: 42\n" to read.
C6_StatusRoundTrip ==
    [][ /\ StatusRoundTripCommon
        /\ (last'.op = "raw_event" /\ IsStatusReport(last'.report) /\ wii_connected = 1) =>
              /\ Unread' = Unread \o Take(BatteryLine(last'.report[2]), FreeSpace(head, tail))
              /\ (head = tail /\ last'.report = <<32, 42>>) => Unread' = Battery42Line ]_vars

\* C6 witness: connected, level 42 cached, and a read has just returned
\* "Battery: 42\n".
C6_Witness ==
    /\ last.op = "read"
    /\ last.out = Battery42Line
    /\ wii_last_battery = 42
    /\ wii_connected = 1

\* C7: a status request made while disconnected returns -ENODEV and sends
\* nothing; made while connected it sends the command to the device.
C7_NoDevice ==
    [][ (last'.op = "ioctl" /\ last'.cmd = WIIMOTE_IOCTL_REQUEST_STATUS) =>
          IF wii_connected = 0
             THEN last'.ret = -ENODEV /\ last'.sent = <<>>
             ELSE Len(last'.sent) = 1 /\ last'.sent[1].dev \in attached ]_vars

\* C7 witness: a status request has just failed with -ENODEV after a
\* disconnect (a battery level learned while connected is still cached).
C7_Witness ==
    /\ last.op = "ioctl"
    /\ last.ret = -ENODEV
    /\ wii_connected = 0
    /\ wii_last_battery # -1

\* C8: the decoder yields no event for a report of 0, 1 or 2 bytes, and
\* ingesting such a report (one the callback hands to the decoder, or a bare
\* status identifier) leaves head, tail and the storage unchanged.
C8_ShortReportRejected ==
    [][ /\ \A data \in Reports : Len(data) < 3 => ~perform_input_mapping(data).write
        /\ (last'.op = "raw_event" /\ Len(last'.report) < 3 /\ ~IsStatusReport(last'.report)) =>
              UNCHANGED <<circ_buffer, head, tail>> ]_vars

\* C8 witness: a 2-byte button report has just been ingested into a ring
\* that holds unread bytes.
C8_Witness ==
    /\ last.op = "raw_event"
    /\ Len(last.report) = 2
    /\ last.report[1] # 32
    /\ head # tail

\* A report the callback hands to the decoder with all three bytes present.
IsButtonReport(report) == Len(report) >= 3 /\ report[1] # 32

\* C9 as stated: ingesting [id, 0x00, 0x00] into an empty ring leaves exactly
\* "No buttons pressed\n" to read.
C9_NoButtonsSentinel ==
    [][ (/\ last'.op = "raw_event" /\ IsButtonReport(last'.report)
         /\ last'.report[2] = 0 /\ last'.report[3] = 0
         /\ head = tail) =>
           Unread' = STR_NO_BUTTONS \o STR_NL ]_vars

\* The token names of the bit mapping in its fixed order, without separators.
TokenNames ==
    << [byte |-> 1, bit |-> 0, name |-> <<68, 112, 97, 100, 95, 76, 101, 102, 116>>],
       [byte |-> 1, bit |-> 1, name |-> <<68, 112, 97, 100, 95, 82, 105, 103, 104, 116>>],
       [byte |-> 1, bit |-> 2, name |-> <<68, 112, 97, 100, 95, 68, 111, 119, 110>>],
       [byte |-> 1, bit |-> 3, name |-> <<68, 112, 97, 100, 95, 85, 112>>],
       [byte |-> 1, bit |-> 4, name |-> <<80, 108, 117, 115>>],
       [byte |-> 2, bit |-> 4, name |-> <<77, 105, 110, 117, 115>>],
       [byte |-> 2, bit |-> 7, name |-> <<72, 111, 109, 101>>],
       [byte |-> 2, bit |-> 0, name |-> <<50>>],
       [byte |-> 2, bit |-> 1, name |-> <<49>>],
       [byte |-> 2, bit |-> 2, name |-> <<66>>],
       [byte |-> 2, bit |-> 3, name |-> <<65>>] >>

\* The names of the bits set in the report, from entry k on, joined by single spaces.
RECURSIVE JoinedTokens(_, _, _)
JoinedTokens(report, k, first) ==
    IF k > Len(TokenNames) THEN <<>>
    ELSE LET e == TokenNames[k]
         IN  IF BitSet(report[e.byte + 1], e.bit)
                THEN (IF first THEN <<>> ELSE <<32>>) \o e.name
                         \o JoinedTokens(report, k + 1, FALSE)
                ELSE JoinedTokens(report, k + 1, first)

\* C10 as stated: for a report with at least one defined bit set, ingested
\* into an empty ring, the line left to read is the header, the tokens of the
\* set bits in the fixed order separated by single spaces (a space may follow
\* the last token), and the newline.
C10_TokenFidelity ==
    [][ (/\ last'.op = "raw_event" /\ IsButtonReport(last'.report)
         /\ JoinedTokens(last'.report, 1, TRUE) # <<>>
         /\ head = tail) =>
           LET hdr == STR_REPORT_ID \o Decimal(last'.report[1]) \o STR_COMMA_SP
               toks == JoinedTokens(last'.report, 1, TRUE)
           IN  Unread' \in {hdr \o toks \o STR_NL, hdr \o toks \o <<32>> \o STR_NL} ]_vars

---------------------------------------------------------------------------
(* C11 .. C20. *)

\* "Report: ID=49, Dpad_LeftA\n".
DpadLeftALine ==
    <<82, 101, 112, 111, 114, 116, 58, 32, 73, 68, 61, 52, 57, 44, 32,
      68, 112, 97, 100, 95, 76, 101, 102, 116, 65, 10>>

\* "Report: ID=<decimal of byte 0>, ".
ReportHeader(report) == STR_REPORT_ID \o Decimal(report[1]) \o STR_COMMA_SP

IsWireLine(line, report) ==
    /\ Len(line) > 0
    /\ line[Len(line)] = 10
    /\ \/ line = STR_NO_BUTTONS \o STR_NL
       \/ \E level \in 0..255 : line = BatteryLine(level)
       \/ /\ Len(report) > 0
          /\ IsPrefix(ReportHeader(report), line)
          /\ Len(line) > Len(ReportHeader(report)) + 1

C13_DisconnectKeepsBuffer ==
    [][ /\ last'.op = "remove" =>
              /\ wii_connected' = 0
              /\ wii_hid_dev' = NULL
              /\ UNCHANGED <<circ_buffer, head, tail>>
              /\ Unread' = Unread
        /\ (last'.op = "read" /\ wii_connected = 0 /\ last'.writable >= last'.count) =>
              /\ last'.out = Take(Unread, Min(last'.count, Len(Unread)))
              /\ Unread' = Drop(Unread, Len(last'.out)) ]_vars

\* C13 witness: the device was removed with unread events in the ring, and a
\* read made after the removal has just returned all of them.
C13_Witness ==
    /\ last.op = "read"
    /\ wii_connected = 0
    /\ Len(last.out) > 0
    /\ head = tail

\* C14: a successful wii_probe leaves the driver connected with the cached
\* battery level unchanged, and a failed one changes nothing of the
\* connection state; no step of the driver puts the cached level back to the
\* unknown sentinel -1 once a level is known.
C14_ConnectKeepsBattery ==
    [][ /\ (last'.op = "probe" /\ last'.ret = 0) =>
              /\ wii_connected' = 1
              /\ wii_hid_dev' # NULL
              /\ wii_last_battery' = wii_last_battery
        /\ (last'.op = "probe" /\ last'.ret # 0) => UNCHANGED connVars
        /\ wii_last_battery # -1 => wii_last_battery' # -1 ]_vars

\* C14 witness: a device has just been probed successfully while a battery
\* level learned from an earlier connection is cached.
C14_Witness ==
    /\ last.op = "probe"
    /\ last.ret = 0
    /\ wii_connected = 1
    /\ wii_last_battery = 42

\* C15 as stated: the cached battery level is -1 (unknown) or in 0..100,
\* whatever status reports [0x20, b] were ingested.
C15_BatteryRange_Original ==
    wii_last_battery = -1 \/ wii_last_battery \in 0..100

\* C15 amended: the cached battery level is -1 (unknown) or a byte value
\* 0..255, and right after a status report [0x20, b, ...] it is b itself.
C15_BatteryRange ==
    /\ wii_last_battery = -1 \/ wii_last_battery \in 0..255
    /\ (last.op = "raw_event" /\ IsStatusReport(last.report)) =>
          wii_last_battery = last.report[2]

\* C15 witness: the status report [0x20, 200, 0] has just been ingested and
\* 200 is cached.
C15_Witness ==
    /\ last.op = "raw_event"
    /\ last.report = <<32, 200, 0>>
    /\ wii_last_battery = 200

\* C16: a device_ioctl call hands at most one request to the transport; when
\* that request fails, the call returns the transport's negative code itself;
\* and the call leaves head, tail, the storage and the connection state as
\* they were.
C16_TransportErrorSurfaced ==
    [][ last'.op = "ioctl" =>
          /\ Len(last'.sent) <= 1
          /\ (Len(last'.sent) = 1 /\ last'.sent[1].result < 0) =>
                last'.ret = last'.sent[1].result
          /\ UNCHANGED <<circ_buffer, head, tail>>
          /\ UNCHANGED <<wii_hid_dev, wii_connected, wii_last_battery>> ]_vars

\* C16 witness: a status request made while connected, with unread bytes in
\* the ring, has just returned the transport's failure code -5.
C16_Witness ==
    /\ last.op = "ioctl"
    /\ Len(last.sent) = 1
    /\ last.sent[1].result = -5
    /\ last.ret = -5
    /\ wii_connected = 1
    /\ head # tail

\* C17: wii_connected goes from 1 to 0 only in a wii_remove step.
C17_DisconnectOnlyByRemove ==
    [][ (wii_connected = 1 /\ wii_connected' = 0) => last'.op = "remove" ]_vars

\* C17 witness: a device that had delivered a report has just been removed;
\* the driver is disconnected.
C17_Witness ==
    /\ last.op = "remove"
    /\ wii_connected = 0
    /\ wii_hid_dev = NULL
    /\ nreports > 0

\* C18: circ_mutex is held only by a process that is between the mutex_lock
\* and the mutex_unlock of circ_buffer_write or device_read, and every way out
\* of those functions, the buffer-full break and the -EFAULT return included,
\* leaves it free: whenever no process is inside a critical section, and so
\* whenever no write or read is in progress, nobody holds the lock.
C18_LockReleased ==
    /\ \A p \in circ_mutex : InCritical(p)
    /\ (\A p \in Procs : ~InCritical(p)) => circ_mutex = {}
    /\ (\A p \in Procs : pc[p] = "idle") => circ_mutex = {}

\* C18 witness: a write has hit the full ring and broken out of its loop, a
\* read has just returned -EFAULT, no call is in progress and the lock is free.
C18_Witness ==
    /\ overflowed
    /\ last.op = "read"
    /\ last.ret = -EFAULT
    /\ \A p \in Procs : pc[p] = "idle"
    /\ circ_mutex = {}

\* No byte value occurs twice in the sequence.
NoDuplicates(s) == \A i, j \in 1..Len(s) : s[i] = s[j] => i = j

\* The state of a reader whose copy_to_user has just failed, before it
\* returns: k bytes were copied, tail is k past where the lock found it, head
\* is where the lock found it, the k oldest bytes are gone from the ring and
\* are the last k delivered, and the byte that faulted and all later ones are
\* still unread.
FaultState(r) ==
    LET k == rd[r].bytes_copied
    IN  /\ k = rd[r].writable
        /\ tail = (rd[r].tail0 + k) % BufSize
        /\ head = rd[r].head0
        /\ Len(rd[r].before) > k
        /\ Unread = Drop(rd[r].before, k)
        /\ Len(delivered) >= k
        /\ Drop(delivered, Len(delivered) - k) = Take(rd[r].before, k)

\* C20: a device_read whose copy of the (k+1)-th byte faults returns -EFAULT
\* with tail advanced by exactly k and head untouched; the k bytes copied are
\* consumed (no byte is ever delivered twice, whatever reads follow) and the
\* byte that faulted and the later ones stay unread.
C20_FaultConsumesCopied ==
    /\ [](\A r \in Readers : pc[r] = "r_fault" => FaultState(r))
    /\ [](/\ NoDuplicates(delivered)
          /\ circ_mutex = {} => delivered \o Unread = admitted)
    /\ [][ \A r \in Readers : (pc[r] = "r_fault" /\ pc'[r] = "idle") =>
              /\ last'.op = "read"
              /\ last'.ret = -EFAULT
              /\ last'.out = Take(rd[r].before, rd[r].bytes_copied)
              /\ UNCHANGED <<circ_buffer, head, tail>> ]_vars

\* C20 witness: a read has just returned -EFAULT after copying one byte; that
\* byte is the last one delivered, and the byte that faulted is still unread.
C20_Witness ==
    /\ last.op = "read"
    /\ last.ret = -EFAULT
    /\ Len(last.out) = 1
    /\ Len(delivered) >= 1
    /\ delivered[Len(delivered)] = last.out[1]
    /\ Unread # <<>>
    /\ \A r \in Readers : pc[r] = "idle"

---------------------------------------------------------------------------
(* SpecConn: the connection state statement by statement.  Task "hid" is   *)
(* the HID core calling wii_probe, wii_remove and wii_raw_event, task      *)
(* "ioctl" a caller of device_ioctl and task "show" a reader of the proc   *)
(* file.  None of wii_hid_dev, wii_connected and wii_last_battery is       *)
(* accessed under a lock, so the steps of the three tasks interleave       *)
(* freely.                                                                 *)

ConnTasks == {"hid", "ioctl", "show"}

\* Reports the HID core delivers under SpecConn: those with the status identifier.
ConnReports == {data \in Reports : Len(data) > 0 /\ data[1] = BATTERY_REPORT_ID}

\* task.seen after the connection state has become <<c, b>>.
Seen(c, b) ==
    IF pc["show"] = "s_battery" THEN task.seen \cup {<<c, b>>} ELSE task.seen

InitConn ==
    /\ circ_buffer = [i \in 0..(CIRC_BUFFER_SIZE - 1) |-> 0]
    /\ head = 0
    /\ tail = 0
    /\ circ_mutex = {}
    /\ wii_hid_dev = NULL
    /\ wii_connected = 0
    /\ wii_last_battery = -1
    /\ attached = {}
    /\ last = NoCall
    /\ nreports = 0
    /\ pc = [t \in ConnTasks |-> "idle"]
    /\ wr = <<>>
    /\ rd = <<>>
    /\ task = NoTask
    /\ offered = <<>>
    /\ admitted = <<>>
    /\ delivered = <<>>
    /\ overflowed = FALSE

\* wii_probe, lines 351-360: the two HID calls, their early returns, and the
\* store to wii_hid_dev.
ConnProbe(hdev, parse, start) ==
    /\ pc["hid"] = "idle"
    /\ hdev \notin attached
    /\ IF parse # 0 \/ start # 0
          THEN /\ last' = [NoCall EXCEPT !.op = "probe",
                                         !.ret = IF parse # 0 THEN parse ELSE start]
               /\ UNCHANGED <<wii_hid_dev, attached, pc>>
          ELSE /\ wii_hid_dev' = hdev
               /\ attached' = attached \cup {hdev}
               /\ pc' = [pc EXCEPT !["hid"] = "p_connected"]
               /\ UNCHANGED last
    /\ UNCHANGED <<ringVars, wii_connected, wii_last_battery, nreports, wr, rd, task, histVars>>

\* wii_probe, lines 361-363: the store to wii_connected and the return.
ConnProbeConnected ==
    /\ pc["hid"] = "p_connected"
    /\ wii_connected' = 1
    /\ task' = [task EXCEPT !.seen = Seen(1, wii_last_battery)]
    /\ last' = [NoCall EXCEPT !.op = "probe", !.ret = 0]
    /\ pc' = [pc EXCEPT !["hid"] = "idle"]
    /\ UNCHANGED <<ringVars, wii_hid_dev, wii_last_battery, attached, nreports, wr, rd, histVars>>

\* wii_remove, line 369: the store of NULL to wii_hid_dev.
ConnRemove(hdev) ==
    /\ pc["hid"] = "idle"
    /\ hdev \in attached
    /\ wii_hid_dev' = NULL
    /\ pc' = [pc EXCEPT !["hid"] = "rm_connected"]
    /\ UNCHANGED <<ringVars, wii_connected, wii_last_battery, attached, last, nreports,
                   wr, rd, task, histVars>>

\* wii_remove, lines 370-372: the store to wii_connected and the return,
\* after which the HID core lets go of the device.
ConnRemoveConnected(hdev) ==
    /\ pc["hid"] = "rm_connected"
    /\ hdev \in attached
    /\ wii_connected' = 0
    /\ attached' = attached \ {hdev}
    /\ task' = [task EXCEPT !.seen = Seen(0, wii_last_battery)]
    /\ last' = [NoCall EXCEPT !.op = "remove"]
    /\ pc' = [pc EXCEPT !["hid"] = "idle"]
    /\ UNCHANGED <<ringVars, wii_hid_dev, wii_last_battery, nreports, wr, rd, histVars>>

\* wii_raw_event run to completion by the HID core.
ConnRawEvent(hdev, data) ==
    /\ pc["hid"] = "idle"
    /\ hdev \in attached
    /\ nreports < MaxReports
    /\ nreports' = nreports + 1
    /\ IF Len(data) > 0 /\ data[1] = BATTERY_REPORT_ID
          THEN IF Len(data) >= 2
                  THEN /\ wii_last_battery' = data[2]
                       /\ circ_buffer_write(BatteryOutput(data[2]))
                  ELSE UNCHANGED <<wii_last_battery, ringVars>>
          ELSE /\ UNCHANGED wii_last_battery
               /\ LET m == perform_input_mapping(data)
                  IN  IF m.write THEN circ_buffer_write(m.text)
                                 ELSE UNCHANGED ringVars
    /\ task' = [task EXCEPT !.seen = Seen(wii_connected, wii_last_battery')]
    /\ last' = [NoCall EXCEPT !.op = "raw_event", !.report = data]
    /\ UNCHANGED <<wii_hid_dev, wii_connected, attached, pc, wr, rd, histVars>>

\* device_ioctl, lines 216-219 and 243-250: the switch and the test of
\* wii_hid_dev, with the two returns that send nothing.
IoctlTest(cmd) ==
    /\ pc["ioctl"] = "idle"
    /\ IF cmd # WIIMOTE_IOCTL_REQUEST_STATUS
          THEN /\ last' = [NoCall EXCEPT !.op = "ioctl", !.cmd = cmd, !.ret = -ENOTTY]
               /\ UNCHANGED <<pc, task>>
          ELSE IF wii_hid_dev = NULL
          THEN /\ last' = [NoCall EXCEPT !.op = "ioctl", !.cmd = cmd, !.ret = -ENODEV]
               /\ UNCHANGED <<pc, task>>
          ELSE /\ task' = [task EXCEPT !.dev = wii_hid_dev]
               /\ pc' = [pc EXCEPT !["ioctl"] = "i_send"]
               /\ UNCHANGED last
    /\ UNCHANGED <<ringVars, connVars, nreports, wr, rd, histVars>>

\* device_ioctl, lines 232-250: hid_hw_raw_request(wii_hid_dev, ...) and the
\* return.  wii_hid_dev is a plain global read without a lock: the argument
\* is the value the test saw when the compiler kept it in a register, or a
\* second load of the variable (reload); tr is what the transport returns.
IoctlSend(tr, reload) ==
    /\ pc["ioctl"] = "i_send"
    /\ LET dev == IF reload THEN wii_hid_dev ELSE task.dev
       IN  last' = [NoCall EXCEPT !.op = "ioctl", !.cmd = WIIMOTE_IOCTL_REQUEST_STATUS,
                       !.ret = tr,
                       !.sent = << [dev |-> dev,
                                    data |-> <<STATUS_REQUEST_ID, 0>>,
                                    result |-> tr] >>]
    /\ task' = [task EXCEPT !.dev = NULL]
    /\ pc' = [pc EXCEPT !["ioctl"] = "idle"]
    /\ UNCHANGED <<ringVars, connVars, nreports, wr, rd, histVars>>

\* wii_proc_show, lines 275-276: the read of wii_connected.
ShowConnected ==
    /\ pc["show"] = "idle"
    /\ task' = [task EXCEPT !.connected = wii_connected,
                            !.seen = {<<wii_connected, wii_last_battery>>}]
    /\ pc' = [pc EXCEPT !["show"] = "s_battery"]
    /\ UNCHANGED <<ringVars, connVars, last, nreports, wr, rd, histVars>>

\* wii_proc_show, lines 277-278: the read of wii_last_battery and the return;
\* last.out is the pair of values printed.
ShowBattery ==
    /\ pc["show"] = "s_battery"
    /\ last' = [NoCall EXCEPT !.op = "proc_show",
                              !.out = <<task.connected, wii_last_battery>>]
    /\ task' = [task EXCEPT !.connected = 0, !.seen = {}]
    /\ pc' = [pc EXCEPT !["show"] = "idle"]
    /\ UNCHANGED <<ringVars, connVars, nreports, wr, rd, histVars>>

NextConn ==
    \/ \E hdev \in Devices, parse \in HidResults, start \in HidResults :
          ConnProbe(hdev, parse, start)
    \/ ConnProbeConnected
    \/ \E hdev \in Devices : ConnRemove(hdev)
    \/ \E hdev \in Devices : ConnRemoveConnected(hdev)
    \/ \E hdev \in Devices, data \in ConnReports : ConnRawEvent(hdev, data)
    \/ \E cmd \in IoctlCmds : IoctlTest(cmd)
    \/ \E tr \in TransportResults, reload \in BOOLEAN : IoctlSend(tr, reload)
    \/ ShowConnected
    \/ ShowBattery

SpecConn == InitConn /\ [][NextConn]_vars

\* C19 as stated: the pair wii_proc_show prints is a pair
\* <<wii_connected, wii_last_battery>> that held at some moment of the call,
\* and device_ioctl hands hid_hw_raw_request a device handle only while
\* wii_hid_dev still holds it: never NULL, never a handle wii_remove has
\* already cleared.
C19_ConsistentSnapshot ==
    [][ /\ (pc["show"] = "s_battery" /\ pc'["show"] = "idle") =>
              <<last'.out[1], last'.out[2]>> \in task.seen
        /\ (pc["ioctl"] = "i_send" /\ pc'["ioctl"] = "idle") =>
              /\ wii_hid_dev # NULL
              /\ last'.sent[1].dev = wii_hid_dev ]_vars

---------------------------------------------------------------------------
(* SpecUser: the driver fed by the HID core and drained by the user-space  *)
(* program of user-space.c, one action per handler and one per iteration   *)
(* of the program's polling loop.                                          *)

\* The C string held in buffer: the bytes before the first NUL.
RECURSIVE CString(_)
CString(buffer) ==
    IF buffer = <<>> \/ buffer[1] = 0 THEN <<>>
    ELSE <<buffer[1]>> \o CString(Drop(buffer, 1))

\* strstr(buffer, needle) != NULL.
Strstr(buffer, needle) ==
    LET hay == CString(buffer)
    IN  \E i \in 1..(Len(hay) + 1) :
           /\ i + Len(needle) - 1 <= Len(hay)
           /\ SubSeq(hay, i, i + Len(needle) - 1) = needle

\* user-space.c lines 64-97: the if / else-if chain of strstr tests on
\* "Dpad_Down", "Dpad_Up", "Dpad_Left", "Dpad_Right", "A", "B", "1", "2",
\* "Plus", "Minus"; the value names the branch taken.
UserAction(buffer) ==
    IF Strstr(buffer, <<68, 112, 97, 100, 95, 68, 111, 119, 110>>) THEN "move_down"
    ELSE IF Strstr(buffer, <<68, 112, 97, 100, 95, 85, 112>>) THEN "move_up"
    ELSE IF Strstr(buffer, <<68, 112, 97, 100, 95, 76, 101, 102, 116>>) THEN "move_left"
    ELSE IF Strstr(buffer, <<68, 112, 97, 100, 95, 82, 105, 103, 104, 116>>) THEN "move_right"
    ELSE IF Strstr(buffer, <<65>>) THEN "left_click"
    ELSE IF Strstr(buffer, <<66>>) THEN "right_click"
    ELSE IF Strstr(buffer, <<49>>) THEN "page_up"
    ELSE IF Strstr(buffer, <<50>>) THEN "page_down"
    ELSE IF Strstr(buffer, <<80, 108, 117, 115>>) THEN "step_up"
    ELSE IF Strstr(buffer, <<77, 105, 110, 117, 115>>) THEN "step_down"
    ELSE "none"

\* One iteration of the loop of main, user-space.c lines 52-101:
\* read(fd, buffer, sizeof(buffer) - 1) served by device_read with a valid
\* destination, buffer[bytes_read] = '\0', and the chain of tests.  last.out
\* is the text read and last.act the branch taken; the pointer position and
\* move_step, which no test reads, are not kept.
main_loop ==
    /\ circ_mutex = {}
    /\ LET r == ReadLoop(circ_buffer, head, tail, <<>>,
                         [count |-> MAX_READ_SIZE - 1, writable |-> MAX_READ_SIZE - 1])
           buffer == r.out \o <<0>>
       IN  /\ tail' = r.tail
           /\ last' = [NoCall EXCEPT !.op = "poll", !.count = MAX_READ_SIZE - 1,
                                     !.writable = MAX_READ_SIZE - 1, !.out = r.out,
                                     !.ret = Len(r.out), !.act = UserAction(buffer)]
    /\ UNCHANGED <<circ_buffer, head, circ_mutex, connVars, nreports, procVars, histVars>>

\* Reports delivered under SpecUser: those of Spec, and B pressed alone.
UserReports == Reports \cup { <<49, 0, 4>> }

NextUser ==
    \/ \E hdev \in Devices, data \in UserReports : wii_raw_event(hdev, data)
    \/ \E hdev \in Devices, parse \in HidResults, start \in HidResults :
          wii_probe(hdev, parse, start)
    \/ \E hdev \in Devices : wii_remove(hdev)
    \/ main_loop

SpecUser == Init /\ [][NextUser]_vars

\* Where the line holding position i of the text starts.
LineStart(text, i) ==
    LET nls == {j \in 1..(i - 1) : text[j] = 10}
    IN  IF nls = {} THEN 1 ELSE 1 + CHOOSE j \in nls : \A k \in nls : k <= j

\* The text holds the decoder's token "B": a letter B inside a line that
\* begins with "Report: ID=".
HasBToken(text) ==
    \E i \in 1..Len(text) :
       /\ text[i] = 66
       /\ IsPrefix(STR_REPORT_ID, Drop(text, LineStart(text, i) - 1))

\* C21 as stated: an iteration of the polling loop takes the right-click
\* branch only if the text it read holds the decoder's token "B", and an
\* iteration that read nothing but a status line "Battery: <n>\n" takes
\* neither click branch.
C21_RightClickOnlyOnB ==
    [][ last'.op = "poll" =>
          /\ last'.act = "right_click" => HasBToken(last'.out)
          /\ (\E level \in 0..255 : last'.out = BatteryLine(level)) =>
                last'.act \notin {"left_click", "right_click"} ]_vars

====
